---- MODULE Spec2Model ----
(***************************************************************************)
(* Model of the maintenance scripts under scripts/:                        *)
(*   fix-nextjs15-auth-pattern.py, fix-auth-placement.py,                  *)
(*   fix-client-component-auth.py, fix_inventory_calls.py,                 *)
(*   update_menu_seed.py.                                                  *)
(*                                                                         *)
(* A file's content is a sequence of lexemes (strings).  Every lexeme is   *)
(* a piece of text that the scripts' regular expressions treat as a unit:  *)
(* a literal of a pattern, one whitespace character, one identifier, one   *)
(* punctuation character.  "SP", "NL" and "CR" stand for the characters    *)
(* space, line feed and carriage return.                                   *)
(***************************************************************************)
EXTENDS Integers, Sequences, FiniteSets, TLC

\* ------------------------------------------------------------------ text
SP == "SP"
NL == "NL"
CR == "CR"

MARK    == "// Authentication check"
SESSION == "const session = await auth()"
SPPG    == "const sppgId = session?.user?.sppgId"
IFNOT   == "if (!sppgId) {"
REDIR   == "redirect("
DENIED  == "'/access-denied?reason=no-sppg'"
LOGIN   == "'/login'"

\* \s of Python's re on str
WS == {SP, NL, CR}
\* \w+ : one identifier
WORD == {"async", "function", "Page", "params", "searchParams", "T",
         "auth", "import", "from", "export", "default", "return", "null"}

\* lexemes that contain the character ) or }
HasRParen == {")", SESSION, IFNOT}
HasRBrace == {"}"}

\* every lexeme of the page components
PageAlphabet ==
    WS \cup WORD \cup {MARK, SESSION, SPPG, IFNOT, REDIR, DENIED, LOGIN,
                       "(", ")", "{", "}", ":", "<", ">",
                       "'@/lib/auth'", "'next/navigation'", "redirect",
                       "'use client'"}

\* lexemes of the seed files
GF     == "getFoodCategoryId("
Q      == "'"
MN     == "menuName: '"
DESC   == "description: '"
MT     == "mealType:"
FCID   == "foodCategoryId: getFoodCategoryId"
ANCHOR == "  const schoolLunchProgram = programs.find(p => p.programCode === 'PWK-PMAS-2025')!"
\* fetch_code from its first line to the } that ends the helper
HELPER == "  // Fetch all food categories for mapping [...] // Helper to get foodCategoryId [...] }"

\* lexemes that contain the character '
HasQuote == {Q, MN, DESC, ANCHOR, HELPER}

\* every lexeme of the seed files
SeedAlphabet ==
    WS \cup {GF, Q, MN, DESC, MT, FCID, ANCHOR, HELPER, ",", "(", ")",
            "Beras", "KARBOHIDRAT", "unit(", "kg", "g",
            "Nasi Gudeg", "Gudeg ayam", "LUNCH"}

\* ------------------------------------------------------------- file I/O
\* A file on disk is a sequence of lexemes too, with the line ends it was
\* saved with.  open(path, 'r') and open(path, 'w') are text mode with
\* newline=None: reading turns \r\n and \r into \n, writing turns \n into
\* os.linesep.
Decode(bytes) ==
    LET marked == [i \in 1..Len(bytes) |->
                     [c    |-> IF bytes[i] = CR THEN NL ELSE bytes[i],
                      skip |-> bytes[i] = NL /\ i > 1 /\ bytes[i - 1] = CR]]
        kept   == SelectSeq(marked, LAMBDA e : ~e.skip)
    IN  [i \in 1..Len(kept) |-> kept[i].c]

\* os.linesep of the POSIX hosts the scripts run on (#!/usr/bin/env python3)
LineSep == NL

Encode(text) ==
    [i \in 1..Len(text) |-> IF text[i] = NL THEN LineSep ELSE text[i]]

\* --------------------------------------------------- regular expressions
\* A pattern is a sequence of elements: one lexeme of a set, a greedy
\* repetition of a set (min 0 or 1), or the zero-width boundary of a group.
Lit(S)   == [k |-> "lit",   s |-> S,   min |-> 1]
Star(S)  == [k |-> "rep",   s |-> S,   min |-> 0]
Plus(S)  == [k |-> "rep",   s |-> S,   min |-> 1]
Open(g)  == [k |-> "open",  s |-> {g}, min |-> 0]
Close(g) == [k |-> "close", s |-> {g}, min |-> 0]

\* text[a..b-1]
Slice(text, a, b) == SubSeq(text, a, b - 1)

\* length of the longest run of lexemes of S in text starting at pos
Run(text, S, pos) ==
    LET stop == {p \in pos..Len(text) : text[p] \notin S}
    IN  IF stop = {} THEN Len(text) + 1 - pos
        ELSE (CHOOSE p \in stop : \A q \in stop : p <= q) - pos

\* the ways a greedy repetition that can take up to run lexemes matches at
\* pos, the longest first: each <<pos, end>>
Greedy(pos, run, min) ==
    [n \in 1..(run - min + 1) |-> <<pos, pos + run - n + 1>>]

\* The ways one element matches at pos, in the order re tries them: each
\* <<pos, end>>.
MatchElem(text, e, pos) ==
    IF e.k \in {"open", "close"} THEN << <<pos, pos>> >>
    ELSE IF e.k = "lit"
    THEN IF pos <= Len(text) /\ text[pos] \in e.s
         THEN << <<pos, pos + 1>> >> ELSE <<>>
    ELSE Greedy(pos, Run(text, e.s, pos), e.min)

RECURSIVE Flat(_)
\* the concatenation of a sequence of sequences
Flat(ss) == IF ss = <<>> THEN <<>> ELSE Head(ss) \o Flat(Tail(ss))

\* a match l of the first elements continued by each of the matches of the
\* next ones, which start where l ends
Extend(l, right) ==
    [n \in 1..Len(right) |-> SubSeq(l, 1, Len(l) - 1) \o right[n]]

RECURSIVE MatchAll(_, _, _, _, _)
RECURSIVE Join(_, _, _, _, _)
\* Every way pat[a..b] matches at pos, in the order re's backtracking
\* reaches them: each the start position of the elements a..b followed by
\* the end position.  A pattern is matched by halves.
MatchAll(text, pat, a, b, pos) ==
    IF a = b THEN MatchElem(text, pat[a], pos)
    ELSE Join(text, pat, (a + b) \div 2 + 1, b,
              MatchAll(text, pat, a, (a + b) \div 2, pos))

\* the matches left of the first half, each continued by every match of
\* pat[a..b]
Join(text, pat, a, b, left) ==
    Flat([i \in 1..Len(left) |->
            Extend(left[i],
                   MatchAll(text, pat, a, b, left[i][Len(left[i])]))])

\* the first of the matches all, <<>> when there is none
First(all) == IF all = <<>> THEN <<>> ELSE all[1]

\* pattern.match at pos: <<>> when there is no match, else the first
\* match in re's order
MatchAt(text, pat, pos) == First(MatchAll(text, pat, 1, Len(pat), pos))

\* the first of the matches ms[1], ms[2], ... that is one
Leftmost(ms) ==
    LET at == {i \in 1..Len(ms) : ms[i] # <<>>}
    IN  IF at = {} THEN <<>>
        ELSE ms[CHOOSE i \in at : \A h \in at : i <= h]

\* re.search from pos: <<>>, or the positions MatchAt gives at the
\* leftmost position where the pattern matches
SearchFrom(text, pat, pos) ==
    Leftmost([i \in 1..(Len(text) - pos + 1) |->
                 MatchAt(text, pat, pos + i - 1)])

Found(text, pat) == SearchFrom(text, pat, 1) # <<>>

\* match.group(g): the text between the boundaries of group g, m being
\* the positions of a match of pat (group 0 is the whole match)
Group(text, pat, m, g) ==
    IF g = 0 THEN Slice(text, m[1], m[Len(m)])
    ELSE LET i == CHOOSE i \in 1..Len(pat) :
                      pat[i].k = "open" /\ pat[i].s = {g}
             j == CHOOSE j \in 1..Len(pat) :
                      pat[j].k = "close" /\ pat[j].s = {g}
         IN  Slice(text, m[i], m[j])

\* str.strip()
Strip(t) ==
    LET ink == {i \in 1..Len(t) : t[i] \notin WS}
    IN  IF ink = {} THEN <<>>
        ELSE SubSeq(t, CHOOSE i \in ink : \A h \in ink : i <= h,
                       CHOOSE i \in ink : \A h \in ink : i >= h)

\* the positions from pos on where needle occurs in text
Occurs(text, needle, pos) ==
    {p \in pos..(Len(text) - Len(needle) + 1) :
        SubSeq(text, p, p + Len(needle) - 1) = needle}

\* the least number of a non-empty set
Least(S) == CHOOSE p \in S : \A q \in S : p <= q

RECURSIVE CountFrom(_, _, _)
\* str.count(needle): the non-overlapping occurrences
CountFrom(text, needle, pos) ==
    IF Occurs(text, needle, pos) = {} THEN 0
    ELSE 1 + CountFrom(text, needle,
                       Least(Occurs(text, needle, pos)) + Len(needle))

Count(text, needle) == CountFrom(text, needle, 1)

RECURSIVE ReplaceFrom(_, _, _, _)
\* str.replace(old, new): every non-overlapping occurrence, left to right
ReplaceFrom(text, old, new, pos) ==
    IF Occurs(text, old, pos) = {} THEN Slice(text, pos, Len(text) + 1)
    ELSE Slice(text, pos, Least(Occurs(text, old, pos))) \o new
         \o ReplaceFrom(text, old, new,
                        Least(Occurs(text, old, pos)) + Len(old))

Replace(text, old, new) == ReplaceFrom(text, old, new, 1)

\* ------------------------------------------------ the relocation scripts
NotRParen == PageAlphabet \ HasRParen
NotRBrace == PageAlphabet \ HasRBrace

\* The part of the three page patterns that matches the misplaced block,
\*   // Authentication check\s*\n\s*const session = await auth\(\)\s*\n
\*   \s*const sppgId = session\?\.user\?\.sppgId\s*\n\s*\n
\*   \s*if \(!sppgId\) \{\s*\n\s*redirect\([^\)]+\)\s*\n\s*\}\s*\n\s*\n
AuthBlock ==
    << Lit({MARK}), Star(WS), Lit({NL}), Star(WS),
       Lit({SESSION}), Star(WS), Lit({NL}), Star(WS),
       Lit({SPPG}), Star(WS), Lit({NL}), Star(WS), Lit({NL}), Star(WS),
       Lit({IFNOT}), Star(WS), Lit({NL}), Star(WS),
       Lit({REDIR}), Plus(NotRParen), Lit({")"}), Star(WS), Lit({NL}),
       Star(WS), Lit({"}"}), Star(WS), Lit({NL}), Star(WS), Lit({NL}) >>

\* fix-nextjs15-auth-pattern.py: wrong_pattern
\*   async\s+function\s+\w+\s*\(\s*\{\s*\n\s*// Authentication check
Nx_wrong_pattern ==
    << Lit({"async"}), Plus(WS), Lit({"function"}), Plus(WS), Plus(WORD),
       Star(WS), Lit({"("}), Star(WS), Lit({"{"}), Star(WS), Lit({NL}),
       Star(WS), Lit({MARK}) >>

\* fix-nextjs15-auth-pattern.py: pattern of fix_auth_in_params
Nx_pattern ==
    << Open(1), Lit({"async"}), Plus(WS), Lit({"function"}), Plus(WS),
       Plus(WORD), Close(1),
       Star(WS), Lit({"("}), Star(WS), Lit({"{"}), Star(WS), Lit({NL}),
       Open(2), Star(WS), Close(2) >>
    \o AuthBlock \o
    << Star(WS), Open(3), Plus(NotRBrace), Close(3), Lit({"}"}),
       Star(WS), Lit({":"}), Star(WS),
       Open(4), Lit({"{"}), Plus(NotRBrace), Lit({"}"}), Close(4),
       Star(WS), Lit({")"}), Star(WS), Lit({"{"}) >>

\* the body the two templates put after the declaration
TemplateAuth ==
    << SP, SP, MARK, NL,
       SP, SP, SESSION, NL,
       SP, SP, SPPG, NL,
       NL,
       SP, SP, IFNOT, NL,
       SP, SP, SP, SP, REDIR, DENIED, ")", NL,
       SP, SP, "}", NL >>

\* fix-nextjs15-auth-pattern.py: replacer
Nx_replacer(text, pat, m) ==
    LET func_start     == Group(text, pat, m, 1)
        params_content == Strip(Group(text, pat, m, 3))
        params_type    == Group(text, pat, m, 4)
    IN  func_start \o <<"(", "{", NL, SP, SP>> \o params_content
        \o <<NL, "}", ":", SP>> \o params_type \o <<")", SP, "{", NL>>
        \o TemplateAuth \o <<NL>>

\* None, as a text no file holds
None == <<"None">>

\* fix-auth-placement.py: the coarse pattern of process_file
\*   async function \w+\s*\(\s*\{\s*\n\s*// Authentication check
Pl_wrong_pattern ==
    << Lit({"async"}), Lit({SP}), Lit({"function"}), Lit({SP}), Plus(WORD),
       Star(WS), Lit({"("}), Star(WS), Lit({"{"}), Star(WS), Lit({NL}),
       Star(WS), Lit({MARK}) >>

\* fix-auth-placement.py: pattern of fix_auth_placement
Pl_pattern ==
    << Open(1), Lit({"async"}), Lit({SP}), Lit({"function"}), Lit({SP}),
       Plus(WORD), Close(1),
       Star(WS), Lit({"("}), Star(WS), Lit({"{"}), Star(WS), Lit({NL}),
       Star(WS) >>
    \o AuthBlock \o
    << Star(WS), Open(2), Lit({"params"}), Star(NotRBrace), Lit({"}"}),
       Close(2), Star(WS), Lit({":"}), Star(WS),
       Open(3), Lit({"{"}), Plus(NotRBrace), Lit({"}"}), Close(3),
       Star(WS), Lit({")"}), Star(WS), Lit({"{"}) >>

\* fix-auth-placement.py: replacer
Pl_replacer(text, pat, m) ==
    LET func_decl  == Group(text, pat, m, 1)
        params     == Strip(Group(text, pat, m, 2))
        param_type == Group(text, pat, m, 3)
    IN  func_decl \o <<"(", "{", NL, SP, SP>> \o params
        \o <<NL, "}", ":", SP>> \o param_type \o <<")", SP, "{", NL>>
        \o TemplateAuth

\* ------------------------------------------- fix-client-component-auth.py
\* Step 1: import\s+\{\s*auth\s*\}\s+from\s+['\"]@/lib/auth['\"]\s*\n
Cl_import_auth ==
    << Lit({"import"}), Plus(WS), Lit({"{"}), Star(WS), Lit({"auth"}),
       Star(WS), Lit({"}"}), Plus(WS), Lit({"from"}), Plus(WS),
       Lit({"'@/lib/auth'"}), Star(WS), Lit({NL}) >>

\* Step 1: import\s+\{\s*redirect\s*\}\s+from\s+['\"]next/navigation['\"]\s*\n
Cl_import_redirect ==
    << Lit({"import"}), Plus(WS), Lit({"{"}), Star(WS), Lit({"redirect"}),
       Star(WS), Lit({"}"}), Plus(WS), Lit({"from"}), Plus(WS),
       Lit({"'next/navigation'"}), Star(WS), Lit({NL}) >>

\* Step 2: async function (\w+)\(
Cl_async ==
    << Lit({"async"}), Lit({SP}), Lit({"function"}), Lit({SP}),
       Open(1), Plus(WORD), Close(1), Lit({"("}) >>

\* Step 3: auth_pattern
Cl_auth_pattern == <<Star(WS)>> \o AuthBlock

\* the replacement arguments of the three steps
Cl_empty(text, pat, m)    == <<>>
Cl_function(text, pat, m) ==
    <<"function", SP>> \o Group(text, pat, m, 1) \o <<"(">>
Cl_newline(text, pat, m)  == <<NL>>

\* ------------------------------------------------- fix_inventory_calls.py
NotQuote == (PageAlphabet \cup SeedAlphabet) \ HasQuote

\* pattern: getFoodCategoryId\('([^']+)',\s*'[^']+'\)
Inv_pattern ==
    << Lit({GF}), Lit({Q}), Open(1), Plus(NotQuote), Close(1), Lit({Q}),
       Lit({","}), Star(WS), Lit({Q}), Plus(NotQuote), Lit({Q}),
       Lit({")"}) >>

\* replacement: getFoodCategoryId('\1')
Inv_replacement(text, pat, m) ==
    <<GF, Q>> \o Group(text, pat, m, 1) \o <<Q, ")">>

\* ---------------------------------------------------- update_menu_seed.py
\* fetch_code
fetch_code == <<HELPER, NL, NL, ANCHOR>>

\* pattern: (menuName: '([^']+)',\s+description: '([^']+)',\s+mealType:)
Mn_pattern ==
    << Open(1), Lit({MN}), Open(2), Plus(NotQuote), Close(2), Lit({Q}),
       Lit({","}), Plus(WS), Lit({DESC}), Open(3), Plus(NotQuote), Close(3),
       Lit({Q}), Lit({","}), Plus(WS), Lit({MT}), Close(1) >>

\* the indentation the replacer writes
Indent == <<SP, SP, SP, SP, SP, SP, SP, SP>>

\* replacer
Mn_replacer(text, pat, m) ==
    LET menu_name   == Group(text, pat, m, 2)
        description == Group(text, pat, m, 3)
    IN  <<MN>> \o menu_name \o <<Q, ",", NL>> \o Indent
        \o <<DESC>> \o description \o <<Q, ",", NL>> \o Indent
        \o <<FCID, "(", Q>> \o menu_name \o <<Q, ",", SP, Q>> \o description
        \o <<Q, ")", ",", NL>> \o Indent \o <<MT>>

\* ------------------------------------------------------------------ re.sub
\* the repl argument of re.sub, by name
Replacement(repl, text, pat, m) ==
    CASE repl = "replacer of fix_auth_in_params" -> Nx_replacer(text, pat, m)
      [] repl = "replacer of fix_auth_placement" -> Pl_replacer(text, pat, m)
      [] repl = "''"                             -> Cl_empty(text, pat, m)
      [] repl = "function \\1("                  -> Cl_function(text, pat, m)
      [] repl = "'\\n'"                          -> Cl_newline(text, pat, m)
      [] repl = "getFoodCategoryId('\\1')"       -> Inv_replacement(text, pat, m)
      [] repl = "replacer of update_menu_seed"   -> Mn_replacer(text, pat, m)

RECURSIVE SubFrom(_, _, _, _)
RECURSIVE Splice(_, _, _, _, _)
\* re.sub(pat, repl, text) from pos on: every non-overlapping match, left
\* to right, replaced by what repl gives for it
SubFrom(text, pat, repl, pos) ==
    Splice(text, pat, repl, pos, SearchFrom(text, pat, pos))

\* the text from pos on, m being the first match from pos on
Splice(text, pat, repl, pos, m) ==
    IF m = <<>> THEN Slice(text, pos, Len(text) + 1)
    ELSE Slice(text, pos, m[1]) \o Replacement(repl, text, pat, m)
         \o SubFrom(text, pat, repl, m[Len(m)])

Sub(text, pat, repl) == SubFrom(text, pat, repl, 1)

RECURSIVE SubnFrom(_, _, _)
\* re.subn(...)[1]: the number of substitutions re.sub makes from pos on
SubnFrom(text, pat, pos) ==
    IF SearchFrom(text, pat, pos) = <<>> THEN 0
    ELSE 1 + SubnFrom(text, pat,
                      SearchFrom(text, pat, pos)[Len(SearchFrom(text, pat, pos))])

\* new_content if it differs from content, else None
Changed(content, new_content) ==
    IF new_content # content THEN new_content ELSE None

\* fix-nextjs15-auth-pattern.py: fix_auth_in_params
fix_auth_in_params(content) ==
    Changed(content, Sub(content, Nx_pattern, "replacer of fix_auth_in_params"))

\* fix-auth-placement.py: fix_auth_placement
fix_auth_placement(content) ==
    Changed(content, Sub(content, Pl_pattern, "replacer of fix_auth_placement"))

\* fix-client-component-auth.py: fix_client_component_auth
fix_client_component_auth(content) ==
    Sub(Sub(Sub(Sub(content, Cl_import_auth, "''"),
                Cl_import_redirect, "''"),
            Cl_async, "function \\1("),
        Cl_auth_pattern, "'\\n'")

\* -------------------------------------------------- the page components
\* The page.tsx contents the runs start from.
PageBody == <<SP, SP, "return", SP, "null", NL, "}", NL>>

PageType == <<"{", SP, "params", ":", SP, "T", SP, "}">>

\* a declaration with the authentication check inside its parameter list
Broken(fnsep, target, blank) ==
    <<"async">> \o fnsep \o <<"function", SP, "Page", "(", "{", NL,
      SP, SP, MARK, NL,
      SP, SP, SESSION, NL,
      SP, SP, SPPG, NL>> \o blank \o
    <<SP, SP, IFNOT, NL,
      SP, SP, SP, SP, REDIR, target, ")", NL,
      SP, SP, "}", NL,
      NL,
      SP, SP, "params", NL,
      "}", ":", SP>> \o PageType \o <<")", SP, "{", NL>> \o PageBody

\* the check redirects to the login page
PageLogin    == Broken(<<SP>>, LOGIN, <<NL>>)
\* no blank line before the if: the strict patterns do not match
PageNoBlank  == Broken(<<SP>>, DENIED, <<>>)
\* a client component without the marker, saved with \r\n after the import
PagePlain ==
    <<"'use client'", NL,
      "import", SP, "{", SP, "auth", SP, "}", SP, "from", SP,
      "'@/lib/auth'", CR, NL,
      "async", SP, "function", SP, "Page", "(", ")", SP, "{", NL>>
    \o PageBody
\* a component with nothing of what the scripts look for
PageStatic ==
    <<"export", SP, "default", SP, "function", SP, "Page", "(", ")", SP,
      "{", NL>> \o PageBody

PageContents == {PageLogin, PageNoBlank, PagePlain, PageStatic}

\* ------------------------------------------------------- the seed files
\* a call with two string literals
Call2(sep) ==
    <<GF, Q, "Beras", Q, ",">> \o sep \o <<Q, "KARBOHIDRAT", Q, ")">>

InvTwoArgs   == Call2(<<SP>>) \o <<",", NL>>
\* another call with two string literals on the next line
InvOtherCall ==
    Call2(<<SP>>) \o <<",", NL, "unit(", Q, "kg", Q, ",", SP, Q, "g", Q,
                       ")", NL>>
\* saved with \r\n line ends
InvCRLF      == Call2(<<>>) \o <<",", CR, NL>>

InvContents == {InvTwoArgs, InvOtherCall, InvCRLF}

\* a menu create block
MenuBlock ==
    Indent \o <<MN, "Nasi Gudeg", Q, ",", NL>> \o
    Indent \o <<DESC, "Gudeg ayam", Q, ",", NL>> \o
    Indent \o <<MT, SP, Q, "LUNCH", Q, ",", NL>>

MenuSeed     == <<ANCHOR, NL>> \o MenuBlock
MenuNoAnchor == MenuBlock

MenuContents == {MenuSeed, MenuNoAnchor}

\* a path that does not exist
NoFile == <<"ENOENT">>

\* ------------------------------------- process_file of the relocation scripts
wrong_pattern(s) ==
    IF s = "fix-nextjs15-auth-pattern" THEN Nx_wrong_pattern
    ELSE Pl_wrong_pattern

Fix(s, content) ==
    IF s = "fix-nextjs15-auth-pattern" THEN fix_auth_in_params(content)
    ELSE fix_auth_placement(content)

\* process_file without the marker check and the coarse pattern: whatever
\* the rewrite of fix-client-component-auth.py changes is written
Decide_unscoped(s, content) ==
    IF fix_client_component_auth(content) = content
    THEN [status |-> "skip", reason |-> "No changes needed",
          logged |-> {}, fixed |-> None]
    ELSE [status |-> "write", reason |-> "", logged |-> {"Fixing"},
          fixed |-> fix_client_component_auth(content)]

\* what process_file does with the result of the fix function
Outcome(s, fixed) ==
    IF fixed = None
    THEN [status |-> "skip",
          reason |-> IF s = "fix-nextjs15-auth-pattern"
                     THEN "Pattern not matched"
                     ELSE "No changes needed",
          logged |-> IF s = "fix-nextjs15-auth-pattern"
                     THEN {"Fixing", "needs manual review"}
                     ELSE {"Fixing"},
          fixed |-> None]
    ELSE [status |-> "write", reason |-> "",
          logged |-> {"Fixing"}, fixed |-> fixed]

\* The decisions process_file takes between its read and its write.
Decide(s, content) ==
    IF ~(\E i \in 1..Len(content) : content[i] = MARK)
    THEN [status |-> "skip", reason |-> "No auth check",
          logged |-> {}, fixed |-> None]
    ELSE IF ~Found(content, wrong_pattern(s))
    THEN [status |-> "skip",
          reason |-> IF s = "fix-nextjs15-auth-pattern"
                     THEN "Auth already correct"
                     ELSE "Auth check already correct",
          logged |-> {}, fixed |-> None]
    ELSE Outcome(s, Fix(s, content))

\* -------------------------------------------------------------- state
\* number of files a run of a page script enumerates
MaxFiles == 2
\* number of times a script is run in succession
MaxRuns == 2

VARIABLES
    script,          \* the script that runs
    app_dir_exists,  \* whether the directory main() searches exists
    disk,            \* path -> what the file holds on disk
    disk0,           \* disk when the run started
    run,             \* the number of the run
    pc,              \* where the run is
    idx,             \* position in the enumeration of files
    content,         \* the text read
    fixed_content,   \* page scripts: the text to write
    new_content,     \* seed scripts: the text to write
    changes,         \* seed scripts: the number printed
    results,         \* main(): results of the relocation scripts
    fixed_count,     \* main(): fixed_count of fix-client-component-auth.py
    report,          \* path -> what the run reported and raised for it
    opened,          \* paths opened for writing in this run
    seen             \* what another process reading a file found last

vars == <<script, app_dir_exists, disk, disk0, run, pc, idx, content,
          fixed_content, new_content, changes, results, fixed_count, report,
          opened, seen>>

Files == 1..MaxFiles

\* FILE and BACKUP of the seed scripts
FILE   == "FILE"
BACKUP == "BACKUP"

RelocationScripts == {"fix-nextjs15-auth-pattern", "fix-auth-placement"}
PageScripts == RelocationScripts \cup {"fix-client-component-auth"}
SeedScripts == {"fix_inventory_calls", "update_menu_seed"}
Scripts     == PageScripts \cup SeedScripts

\* the paths a script works on
Paths(s) == IF s \in SeedScripts THEN {FILE, BACKUP} ELSE Files

\* ----------------------------------------------------------- the runs
\* nothing reported, nothing raised
NoReport ==
    [status |-> "none", reason |-> "", logged |-> {}, raised |-> ""]

\* where a run of script s starts
Start(s) == IF s \in SeedScripts THEN "read" ELSE "main"

\* the files a run can find
Disks(s) ==
    CASE s \in RelocationScripts -> [Files -> PageContents]
      \* FILES_TO_FIX is a list of paths, and a path of it may not exist
      [] s = "fix-client-component-auth" ->
             [Files -> PageContents \cup {NoFile}]
      [] s = "fix_inventory_calls" ->
             {[p \in {FILE, BACKUP} |-> IF p = FILE THEN c ELSE NoFile] :
                 c \in InvContents}
      [] s = "update_menu_seed" ->
             {[p \in {FILE, BACKUP} |-> IF p = FILE THEN c ELSE NoFile] :
                 c \in MenuContents}

Init ==
    /\ script \in Scripts
    /\ app_dir_exists \in BOOLEAN
    \* only the relocation scripts look for a directory
    /\ script \notin RelocationScripts => app_dir_exists
    /\ disk \in Disks(script)
    /\ disk0 = disk
    /\ run = 1
    /\ pc = Start(script)
    /\ idx = 1
    /\ content = None
    /\ fixed_content = None
    /\ new_content = None
    /\ changes = 0
    /\ results = [success |-> 0, skip |-> 0, error |-> 0]
    /\ fixed_count = 0
    /\ report = [p \in Paths(script) |-> NoReport]
    /\ opened = {}
    /\ seen = "not read"

\* the prefixes of the text a write may have put on disk before the file
\* is closed: none of it, or the part that filled the buffer
Flushed(text) == {<<>>, SubSeq(text, 1, Len(text) \div 2)}

\* open(path, 'w') truncates the file
Truncate(path, next) ==
    /\ disk' = [disk EXCEPT ![path] = <<>>]
    /\ opened' = opened \cup {path}
    /\ pc' = next

\* f.write(text): the buffer may be flushed before the file is closed
WriteSome(path, text, next) ==
    /\ \E part \in Flushed(Encode(text)) :
           disk' = [disk EXCEPT ![path] = part]
    /\ pc' = next

\* an exception nothing catches ends the script with a traceback
Raised(path, what) ==
    /\ report' = [report EXCEPT ![path].raised = what]
    /\ pc' = "traceback"
    /\ UNCHANGED <<script, app_dir_exists, disk, disk0, run, idx, content,
                   fixed_content, new_content, changes, results, fixed_count,
                   opened, seen>>

\* ------------------------------------------------ the relocation scripts
\* what main() does with the result process_file returned for file f
Returned(f, st, why, lines, what) ==
    /\ report' = [report EXCEPT ![f] =
                     [status |-> st, reason |-> why,
                      logged |-> @.logged \cup lines, raised |-> what]]
    /\ results' = [results EXCEPT ![st] = @ + 1]
    /\ idx' = idx + 1
    /\ content' = None
    /\ fixed_content' = None
    /\ pc' = "main"

\* main(): app_dir does not exist
main_no_dir ==
    /\ script \in RelocationScripts
    /\ pc = "main" /\ idx = 1 /\ ~app_dir_exists
    /\ pc' = "returned"
    /\ UNCHANGED <<script, app_dir_exists, disk, disk0, run, idx, content,
                   fixed_content, new_content, changes, results, fixed_count,
                   report, opened, seen>>

\* process_file: open(file_path, 'r') and f.read()
pf_read ==
    /\ script \in RelocationScripts
    /\ pc = "main" /\ app_dir_exists /\ idx \in Files
    /\ content' = Decode(disk[idx])
    /\ pc' = "decide"
    /\ UNCHANGED <<script, app_dir_exists, disk, disk0, run, idx,
                   fixed_content, new_content, changes, results, fixed_count,
                   report, opened, seen>>

\* process_file: open(file_path, 'r') or f.read() raises
pf_read_error ==
    /\ script \in RelocationScripts
    /\ pc = "main" /\ app_dir_exists /\ idx \in Files
    /\ Returned(idx, "error", "", {"Error"}, "read")
    /\ UNCHANGED <<script, app_dir_exists, disk, disk0, run, new_content,
                   changes, fixed_count, opened, seen>>

\* process_file returns the skip d
Skipped(d) ==
    /\ d.status = "skip"
    /\ Returned(idx, "skip", d.reason, d.logged, "")

\* process_file: the file is not to be written
pf_skip ==
    /\ script \in RelocationScripts
    /\ pc = "decide"
    /\ Skipped(Decide(script, content))
    /\ UNCHANGED <<script, app_dir_exists, disk, disk0, run, new_content,
                   changes, fixed_count, opened, seen>>

\* process_file goes on to write d.fixed
Fixing(d) ==
    /\ d.status = "write"
    /\ fixed_content' = d.fixed
    /\ report' = [report EXCEPT ![idx].logged = @ \cup d.logged]
    /\ pc' = "open"

\* process_file: fixed_content is not None
pf_fix ==
    /\ script \in RelocationScripts
    /\ pc = "decide"
    /\ Fixing(Decide(script, content))
    /\ UNCHANGED <<script, app_dir_exists, disk, disk0, run, idx, content,
                   new_content, changes, results, fixed_count, opened, seen>>

\* process_file: open(file_path, 'w')
pf_open ==
    /\ script \in RelocationScripts
    /\ pc = "open"
    /\ Truncate(idx, "write")
    /\ UNCHANGED <<script, app_dir_exists, disk0, run, idx, content,
                   fixed_content, new_content, changes, results, fixed_count,
                   report, seen>>

\* process_file: open(file_path, 'w') raises
pf_open_error ==
    /\ script \in RelocationScripts
    /\ pc = "open"
    /\ Returned(idx, "error", "", {"Error"}, "open")
    /\ UNCHANGED <<script, app_dir_exists, disk, disk0, run, new_content,
                   changes, fixed_count, opened, seen>>

\* process_file: f.write(fixed_content)
pf_write ==
    /\ script \in RelocationScripts
    /\ pc = "write"
    /\ WriteSome(idx, fixed_content, "close")
    /\ UNCHANGED <<script, app_dir_exists, disk0, run, idx, content,
                   fixed_content, new_content, changes, results, fixed_count,
                   report, opened, seen>>

\* process_file: the with block ends, the rest is flushed
pf_close ==
    /\ script \in RelocationScripts
    /\ pc = "close"
    /\ disk' = [disk EXCEPT ![idx] = Encode(fixed_content)]
    /\ Returned(idx, "success", "", {"Fixed"}, "")
    /\ UNCHANGED <<script, app_dir_exists, disk0, run, new_content, changes,
                   fixed_count, opened, seen>>

\* process_file: the write or the flush raises
pf_write_error ==
    /\ script \in RelocationScripts
    /\ pc = "close"
    /\ Returned(idx, "error", "", {"Error"}, "write")
    /\ UNCHANGED <<script, app_dir_exists, disk, disk0, run, new_content,
                   changes, fixed_count, opened, seen>>

\* main(): the loop is over, the summary is printed
main_summary ==
    /\ script \in PageScripts
    /\ pc = "main" /\ app_dir_exists /\ idx \notin Files
    /\ pc' = "summary"
    /\ UNCHANGED <<script, app_dir_exists, disk, disk0, run, idx, content,
                   fixed_content, new_content, changes, results, fixed_count,
                   report, opened, seen>>

\* ------------------------------------ main of fix-client-component-auth.py
\* main() goes on to the next path, having printed st for this one
Printed(st) ==
    /\ report' = [report EXCEPT ![idx].status = st]
    /\ idx' = idx + 1
    /\ content' = None
    /\ fixed_content' = None
    /\ pc' = "main"

\* main(): the path does not exist
cl_not_found ==
    /\ script = "fix-client-component-auth"
    /\ pc = "main" /\ idx \in Files /\ disk[idx] = NoFile
    /\ Printed("Not found")
    /\ UNCHANGED <<script, app_dir_exists, disk, disk0, run, new_content,
                   changes, results, fixed_count, opened, seen>>

\* main(): open(path, 'r') and f.read()
cl_read ==
    /\ script = "fix-client-component-auth"
    /\ pc = "main" /\ idx \in Files /\ disk[idx] # NoFile
    /\ content' = Decode(disk[idx])
    /\ pc' = "decide"
    /\ UNCHANGED <<script, app_dir_exists, disk, disk0, run, idx,
                   fixed_content, new_content, changes, results, fixed_count,
                   report, opened, seen>>

\* main(): open(path, 'r') or f.read() raises; nothing catches it
cl_read_error ==
    /\ script = "fix-client-component-auth"
    /\ pc = "main" /\ idx \in Files /\ disk[idx] # NoFile
    /\ Raised(idx, "read")

\* main(): fixed_content = content
cl_no_change ==
    /\ script = "fix-client-component-auth"
    /\ pc = "decide"
    /\ fix_client_component_auth(content) = content
    /\ Printed("No changes needed")
    /\ UNCHANGED <<script, app_dir_exists, disk, disk0, run, new_content,
                   changes, results, fixed_count, opened, seen>>

\* main() goes on to write fixed
Differs(fixed) ==
    /\ fixed # content
    /\ fixed_content' = fixed
    /\ pc' = "open"

\* main(): fixed_content != content
cl_fix ==
    /\ script = "fix-client-component-auth"
    /\ pc = "decide"
    /\ Differs(fix_client_component_auth(content))
    /\ UNCHANGED <<script, app_dir_exists, disk, disk0, run, idx, content,
                   new_content, changes, results, fixed_count, report, opened,
                   seen>>

\* main(): open(path, 'w')
cl_open ==
    /\ script = "fix-client-component-auth"
    /\ pc = "open"
    /\ Truncate(idx, "write")
    /\ UNCHANGED <<script, app_dir_exists, disk0, run, idx, content,
                   fixed_content, new_content, changes, results, fixed_count,
                   report, seen>>

\* main(): open(path, 'w') raises
cl_open_error ==
    /\ script = "fix-client-component-auth"
    /\ pc = "open"
    /\ Raised(idx, "open")

\* main(): f.write(fixed_content)
cl_write ==
    /\ script = "fix-client-component-auth"
    /\ pc = "write"
    /\ WriteSome(idx, fixed_content, "close")
    /\ UNCHANGED <<script, app_dir_exists, disk0, run, idx, content,
                   fixed_content, new_content, changes, results, fixed_count,
                   report, opened, seen>>

\* main(): the with block ends; Fixed is printed and counted
cl_close ==
    /\ script = "fix-client-component-auth"
    /\ pc = "close"
    /\ disk' = [disk EXCEPT ![idx] = Encode(fixed_content)]
    /\ fixed_count' = fixed_count + 1
    /\ Printed("Fixed")
    /\ UNCHANGED <<script, app_dir_exists, disk0, run, new_content, changes,
                   results, opened, seen>>

\* main(): the write or the flush raises
cl_write_error ==
    /\ script = "fix-client-component-auth"
    /\ pc = "close"
    /\ Raised(idx, "write")

\* ------------------------------------------------------ the seed scripts
\* with open(FILE, "r") as f: content = f.read()
sd_read ==
    /\ script \in SeedScripts
    /\ pc = "read"
    /\ content' = Decode(disk[FILE])
    /\ pc' = "backup_open"
    /\ UNCHANGED <<script, app_dir_exists, disk, disk0, run, idx,
                   fixed_content, new_content, changes, results, fixed_count,
                   report, opened, seen>>

\* open(FILE, "r") or f.read() raises
sd_read_error ==
    /\ script \in SeedScripts
    /\ pc = "read"
    /\ Raised(FILE, "read")

\* open(BACKUP, "w")
sd_backup_open ==
    /\ script \in SeedScripts
    /\ pc = "backup_open"
    /\ Truncate(BACKUP, "backup_write")
    /\ UNCHANGED <<script, app_dir_exists, disk0, run, idx, content,
                   fixed_content, new_content, changes, results, fixed_count,
                   report, seen>>

\* open(BACKUP, "w") raises
sd_backup_open_error ==
    /\ script \in SeedScripts
    /\ pc = "backup_open"
    /\ Raised(BACKUP, "open")

\* f.write(content) to the backup
sd_backup_write ==
    /\ script \in SeedScripts
    /\ pc = "backup_write"
    /\ WriteSome(BACKUP, content, "backup_close")
    /\ UNCHANGED <<script, app_dir_exists, disk0, run, idx, content,
                   fixed_content, new_content, changes, results, fixed_count,
                   report, opened, seen>>

\* the backup is left as the buffer's first flush wrote it: the script goes
\* on before the rest of the text has reached the file
sd_backup_lost ==
    /\ script \in SeedScripts
    /\ pc = "backup_close"
    /\ pc' = "sub"
    /\ UNCHANGED <<script, app_dir_exists, disk, disk0, run, idx, content,
                   fixed_content, new_content, changes, results, fixed_count,
                   report, opened, seen>>

\* the with block of the backup ends, the rest is flushed
sd_backup_close ==
    /\ script \in SeedScripts
    /\ pc = "backup_close"
    /\ disk' = [disk EXCEPT ![BACKUP] = Encode(content)]
    /\ pc' = "sub"
    /\ UNCHANGED <<script, app_dir_exists, disk0, run, idx, content,
                   fixed_content, new_content, changes, results, fixed_count,
                   report, opened, seen>>

\* the write or the flush of the backup raises
sd_backup_write_error ==
    /\ script \in SeedScripts
    /\ pc = "backup_close"
    /\ Raised(BACKUP, "write")

\* fix_inventory_calls.py goes on with new_content
Counted(new) ==
    /\ new_content' = new
    /\ changes' = Count(content, <<GF>>) - Count(new, <<",", SP, Q>>)
    /\ pc' = "open"

\* fix_inventory_calls.py: re.sub and the count of changes
inv_sub ==
    /\ script = "fix_inventory_calls"
    /\ pc = "sub"
    /\ Counted(Sub(content, Inv_pattern, "getFoodCategoryId('\\1')"))
    /\ UNCHANGED <<script, app_dir_exists, disk, disk0, run, idx, content,
                   fixed_content, results, fixed_count, report, opened, seen>>

\* update_menu_seed.py goes on with content and new_content
Added(replaced, new) ==
    /\ content' = replaced
    /\ new_content' = new
    /\ changes' = Count(new, <<FCID>>) - Count(replaced, <<FCID>>)
    /\ pc' = "open"

\* update_menu_seed.py: content.replace, re.sub and the count of changes
menu_sub ==
    /\ script = "update_menu_seed"
    /\ pc = "sub"
    /\ Added(Replace(content, <<ANCHOR>>, fetch_code),
             Sub(Replace(content, <<ANCHOR>>, fetch_code), Mn_pattern,
                 "replacer of update_menu_seed"))
    /\ UNCHANGED <<script, app_dir_exists, disk, disk0, run, idx,
                   fixed_content, results, fixed_count, report, opened, seen>>

\* open(FILE, "w")
sd_open ==
    /\ script \in SeedScripts
    /\ pc = "open"
    /\ Truncate(FILE, "write")
    /\ UNCHANGED <<script, app_dir_exists, disk0, run, idx, content,
                   fixed_content, new_content, changes, results, fixed_count,
                   report, seen>>

\* open(FILE, "w") raises
sd_open_error ==
    /\ script \in SeedScripts
    /\ pc = "open"
    /\ Raised(FILE, "open")

\* f.write(new_content)
sd_write ==
    /\ script \in SeedScripts
    /\ pc = "write"
    /\ WriteSome(FILE, new_content, "close")
    /\ UNCHANGED <<script, app_dir_exists, disk0, run, idx, content,
                   fixed_content, new_content, changes, results, fixed_count,
                   report, opened, seen>>

\* the with block ends, the rest is flushed; the two lines are printed
sd_close ==
    /\ script \in SeedScripts
    /\ pc = "close"
    /\ disk' = [disk EXCEPT ![FILE] = Encode(new_content)]
    /\ pc' = "done"
    /\ UNCHANGED <<script, app_dir_exists, disk0, run, idx, content,
                   fixed_content, new_content, changes, results, fixed_count,
                   report, opened, seen>>

\* the write or the flush raises
sd_write_error ==
    /\ script \in SeedScripts
    /\ pc = "close"
    /\ Raised(FILE, "write")

\* --------------------------------------------------------- another process
\* the file the script is working on
Current == IF script \in SeedScripts THEN FILE ELSE idx

\* the text the script is about to write to it
Planned == IF script \in SeedScripts THEN new_content ELSE fixed_content

\* what a reader of the file finds: the content the run started from, the
\* content the run decided to write, or neither
Observed ==
    IF disk[Current] = disk0[Current] THEN "old"
    ELSE IF Planned # None /\ disk[Current] = Encode(Planned)
         THEN "new"
         ELSE "neither"

\* Another process reads the file the script is working on, at some point
\* between the script's read of it and the end of its write.
reader ==
    /\ pc \in {"decide", "backup_open", "backup_write", "backup_close", "sub",
               "open", "write", "close"}
    /\ seen' = Observed
    /\ UNCHANGED <<script, app_dir_exists, disk, disk0, run, pc, idx, content,
                   fixed_content, new_content, changes, results, fixed_count,
                   report, opened>>

\* ------------------------------------------------------------ a second run
\* The script is run again after a run that ended with no exception,
\* caught or not, nothing else having touched the files.
rerun ==
    /\ pc \in {"summary", "done"} /\ run < MaxRuns
    /\ results.error = 0
    /\ run' = run + 1
    /\ disk0' = disk
    /\ pc' = Start(script)
    /\ idx' = 1
    /\ content' = None
    /\ fixed_content' = None
    /\ new_content' = None
    /\ changes' = 0
    /\ results' = [success |-> 0, skip |-> 0, error |-> 0]
    /\ fixed_count' = 0
    /\ report' = [p \in Paths(script) |-> NoReport]
    /\ opened' = {}
    /\ seen' = "not read"
    /\ UNCHANGED <<script, app_dir_exists, disk>>

Next ==
    \/ main_no_dir
    \/ pf_read
    \/ pf_read_error
    \/ pf_skip
    \/ pf_fix
    \/ pf_open
    \/ pf_open_error
    \/ pf_write
    \/ pf_close
    \/ pf_write_error
    \/ main_summary
    \/ cl_not_found
    \/ cl_read
    \/ cl_read_error
    \/ cl_no_change
    \/ cl_fix
    \/ cl_open
    \/ cl_open_error
    \/ cl_write
    \/ cl_close
    \/ cl_write_error
    \/ sd_read
    \/ sd_read_error
    \/ sd_backup_open
    \/ sd_backup_open_error
    \/ sd_backup_write
    \/ sd_backup_close
    \/ sd_backup_write_error
    \/ inv_sub
    \/ menu_sub
    \/ sd_open
    \/ sd_open_error
    \/ sd_write
    \/ sd_close
    \/ sd_write_error
    \/ reader
    \/ rerun

Spec == Init /\ [][Next]_vars

\* ------------------------------------------------------------- the claims
\* C1: Idempotence.  When a script that ended normally is run again with
\* nothing else having touched the files, the second run reports nothing
\* fixed (no success, no Fixed, zero changes) and leaves every file as the
\* first run left it.
C1_Idempotent ==
    (run > 1 /\ pc \in {"summary", "done"}) =>
        /\ disk = disk0
        /\ results.success = 0
        /\ fixed_count = 0
        /\ changes = 0

\* C2 (as stated): Scope containment in every script that rewrites page
\* components.  A file whose content does not contain
\* '// Authentication check' is never opened for writing and never reported
\* as rewritten.
C2_ScopeContained ==
    script \in PageScripts =>
        \A f \in Files :
            (/\ disk0[f] # NoFile
             /\ ~(\E i \in 1..Len(disk0[f]) : disk0[f][i] = MARK)) =>
                /\ f \notin opened
                /\ report[f].status \notin {"success", "Fixed"}

\* C2 (amended): Scope containment in the two relocation scripts.  A file
\* whose content does not contain '// Authentication check' is never opened
\* for writing, and once process_file has returned for it, it is reported as
\* skipped unless its read raised.
C2_ScopeContainedRelocation ==
    script \in RelocationScripts =>
        \A f \in Files :
            ~(\E i \in 1..Len(disk0[f]) : disk0[f][i] = MARK) =>
                /\ f \notin opened
                /\ disk[f] = disk0[f]
                /\ \/ report[f].status = "none"
                   \/ report[f].status = "skip"
                   \/ report[f].status = "error" /\ report[f].raised = "read"

\* C2 witness: a relocation script has read a file without the marker that
\* holds an async function and an auth import, and has reported it skipped.
C2_Witness ==
    /\ script \in RelocationScripts
    /\ \E f \in Files :
           /\ disk0[f] = PagePlain
           /\ report[f].status = "skip"
           /\ report[f].reason = "No auth check"

\* C3: Non-destructive skip in both relocation scripts.  A file that was
\* read, that holds the marker and matches the coarse pattern, and that the
\* strict pattern does not match, is reported as needing manual review, is
\* counted as skip, and holds on disk what it held before the run.
C3_ManualReviewSkip ==
    script \in RelocationScripts =>
        \A f \in Files :
            (/\ report[f].status # "none"
             /\ report[f].raised = ""
             /\ \E i \in 1..Len(disk0[f]) : disk0[f][i] = MARK
             /\ Found(Decode(disk0[f]), wrong_pattern(script))
             /\ Fix(script, Decode(disk0[f])) = None) =>
                /\ "needs manual review" \in report[f].logged
                /\ report[f].status = "skip"
                /\ disk[f] = disk0[f]

\* C4: Backup fidelity.  In a run of fix_inventory_calls.py or
\* update_menu_seed.py, from the moment the backup file has been written to
\* the end of the run, the backup file holds exactly what the target file
\* held on disk when the run started.
C4_BackupFidelity ==
    (script \in SeedScripts
     /\ pc \in {"sub", "open", "write", "close", "done"}) =>
        disk[BACKUP] = disk0[FILE]

\* C5: Argument-count correctness of fix_inventory_calls.py.  When the
\* script has ended, no call with two string-literal arguments that the
\* pattern describes is left in the file, and the number printed is the
\* number of call sites re.sub altered.
C5_ArgumentCount ==
    (script = "fix_inventory_calls" /\ pc = "done") =>
        /\ ~Found(Decode(disk[FILE]), Inv_pattern)
        /\ changes = SubnFrom(Decode(disk0[FILE]), Inv_pattern, 1)

\* C6: I/O error isolation in the scripts that process more than one file.
\* No I/O failure ends the run with an uncaught exception, and when the
\* summary is reached every enumerated file has been processed.
C6_ErrorsIsolated ==
    script \in PageScripts =>
        /\ pc # "traceback"
        /\ pc = "summary" => \A f \in Files : report[f].status # "none"

\* C7: Atomic rewrite.  Another process that reads the file between the
\* script's read and the end of its write finds the complete old content or
\* the complete new content.
C7_AtomicRewrite == seen \in {"not read", "old", "new"}

\* C8: Relocation result.  A file a relocation script reports as success
\* holds, whitespace aside, what it held before with the authentication
\* block (from the marker to the } that closes the if) moved from the
\* parameter list to the start of the function body: the same statements,
\* the same redirect target, and nothing else in the parameter list.
C8_Relocated ==
    script \in RelocationScripts =>
        \A f \in Files :
            report[f].status = "success" =>
                LET old   == SelectSeq(Decode(disk0[f]), LAMBDA e : e \notin WS)
                    new   == SelectSeq(Decode(disk[f]), LAMBDA e : e \notin WS)
                    i     == CHOOSE i \in 1..Len(old) : old[i] = MARK
                    block == SubSeq(old, i, i + 7)
                    rest  == SubSeq(old, 1, i - 1) \o SubSeq(old, i + 8, Len(old))
                    body  == {k \in i..(Len(rest) - 1) :
                                 rest[k] = ")" /\ rest[k + 1] = "{"}
                    k     == CHOOSE k \in body : \A h \in body : k <= h
                IN  new = SubSeq(rest, 1, k + 1) \o block
                          \o SubSeq(rest, k + 2, Len(rest))

\* C9: Backup precedes overwrite.  In every state of a run of
\* fix_inventory_calls.py or update_menu_seed.py in which the target file
\* differs on disk from what it held when the run started, the backup file
\* holds the content read at the start; and when opening or writing the
\* backup has raised, the target file holds what it held at the start.
C9_BackupPrecedesOverwrite ==
    script \in SeedScripts =>
        /\ disk[FILE] # disk0[FILE] =>
               disk[BACKUP] = Encode(Decode(disk0[FILE]))
        /\ report[BACKUP].raised # "" => disk[FILE] = disk0[FILE]

\* C9 witness: a seed script has overwritten its target with a different
\* text and has ended.
C9_Witness ==
    /\ script \in SeedScripts
    /\ pc = "done"
    /\ disk[FILE] # disk0[FILE]
    /\ disk[BACKUP] # NoFile

\* C10: Status accounting in the two relocation scripts.  When the summary
\* is reached every enumerated file has one of the statuses success, skip
\* and error, the three counters sum to the number of files, a file whose
\* content differs from what it was before the run is counted as success,
\* and a file counted as skip was never opened for writing.
C10_StatusAccounting ==
    (script \in RelocationScripts /\ pc = "summary") =>
        /\ \A f \in Files : report[f].status \in {"success", "skip", "error"}
        /\ results.success + results.skip + results.error = MaxFiles
        /\ \A f \in Files :
               /\ disk[f] # disk0[f] => report[f].status = "success"
               /\ report[f].status = "skip" => f \notin opened

====
